---- MODULE Spec2Model ----
(***************************************************************************)
(* Post-processing pipeline of whisper.py:                                 *)
(*   sentence_segments_merger   (word tokens -> sentence cues)             *)
(*   the SRT generation block of main (cues -> subtitle document)          *)
(*   translate_phonetic_alphabet (text -> text)                            *)
(* A text is a sequence of one-character strings.  Times are integers      *)
(* (one unit of the model is one unit of the float seconds of the code).   *)
(***************************************************************************)
EXTENDS Integers, Sequences, FiniteSets, TLC

VARIABLES
    \* ---- sentence_segments_merger ----
    segments,                  \* the input list of {"text","start","end"} dicts
    max_text_len,              \* parameter
    max_segment_interval,      \* parameter
    idx,                       \* 1-based position of the next loop iteration
    merged_segments,           \* the output list being built
    current_segment,           \* the open accumulator dict
    is_current_segment_empty,  \* the flag of the same name
    mpc,                       \* "off" | "loop" | "done"
    last_branch,               \* branch taken by the latest loop iteration
    \* ---- SRT generation in main ----
    result_merged,             \* the cue list handed to the SRT block
    result_srt_list,           \* list of srt.Subtitle
    sidx,                      \* 1-based position of the enumerate loop
    composed_transcription,    \* blocks of the composed document
    raised,                    \* exception raised inside the try block
    spc,                       \* "off" | "build" | "done"
    \* ---- translate_phonetic_alphabet (re.sub scan) ----
    text,                      \* the argument of the call in progress
    pos,                       \* 1-based scan position of re.sub
    out,                       \* output built so far by re.sub
    matched,                   \* match.group(0) of the latest match
    replacement,               \* return value of replace_match_and_bold for it
    pass,                      \* 1 = first call, 2 = call on the first result
    input_text,                \* argument of the first call
    translated_text,           \* result of the first call
    translated_twice,          \* result of the second call
    tpc                        \* "off" | "scan" | "done" | "raised"

mvars == <<segments, max_text_len, max_segment_interval, idx, merged_segments,
           current_segment, is_current_segment_empty, mpc, last_branch>>
svars == <<result_merged, result_srt_list, sidx, composed_transcription, raised, spc>>
tvars == <<text, pos, out, matched, replacement, pass, input_text,
           translated_text, translated_twice, tpc>>
vars == <<mvars, svars, tvars>>

----------------------------------------------------------------------------
(* Generic helpers on sequences *)

Last(s) == s[Len(s)]

SeqsUpTo(S, n) == UNION {[1..k -> S] : k \in 0..n}

RECURSIVE Flatten(_)
Flatten(ss) == IF ss = <<>> THEN <<>> ELSE Head(ss) \o Flatten(Tail(ss))

----------------------------------------------------------------------------
(* str.strip() *)

\* the characters str.strip() removes (str.isspace); a character that is not a
\* printable ASCII character is written by its code point, "U+00A0"
WhitespaceChars ==
    {
      "\t", "\n", "U+000B", "\f", "\r", "U+001C", "U+001D", "U+001E",
      "U+001F", " ", "U+0085", "U+00A0", "U+1680", "U+2000", "U+2001",
      "U+2002", "U+2003", "U+2004", "U+2005", "U+2006", "U+2007", "U+2008",
      "U+2009", "U+200A", "U+2028", "U+2029", "U+202F", "U+205F", "U+3000"
    }

IsSpace(c) == c \in WhitespaceChars

RECURSIVE LStrip(_)
LStrip(s) == IF s # <<>> /\ IsSpace(Head(s)) THEN LStrip(Tail(s)) ELSE s

RECURSIVE RStrip(_)
RStrip(s) == IF s # <<>> /\ IsSpace(Last(s)) THEN RStrip(SubSeq(s, 1, Len(s) - 1)) ELSE s

Strip(s) == RStrip(LStrip(s))

----------------------------------------------------------------------------
(* sentence_segments_merger *)

\* Bounds of the merger inputs
MaxTokens == 3

TimePoints == {0, 1}
TokenTexts == { <<"a">>, <<"\t", "a">>, <<" ", "\n">>, <<"b", "c">>, <<"a", "b", "c", "d">> }
TextLens == {4, 6}
Intervals == {1, 2}

Tokens == { [text |-> t, start |-> s, end |-> e] :
              t \in TokenTexts, s \in TimePoints, e \in TimePoints }

WellTimedTokens == { k \in Tokens : k.start <= k.end }

\* current_segment_template; toks is a history field listing the positions of
\* the input tokens the accumulator was built from.
current_segment_template == [text |-> <<>>, start |-> 0, end |-> 0, toks |-> <<>>]

\* lines 121-123 and 136-138: seed the accumulator from the token at position i
Seed(segment, i) ==
    [text |-> Strip(segment.text), start |-> segment.start,
     end |-> segment.end, toks |-> <<i>>]

CanAbsorbGapInclusive(cur, segment, mtl, msi) ==
    /\ segment.start - cur.end <= msi
    /\ Len(cur.text \o <<" ">> \o Strip(segment.text)) < mtl

CanAbsorbLenInclusive(cur, segment, mtl, msi) ==
    /\ segment.start - cur.end < msi
    /\ Len(cur.text \o <<" ">> \o Strip(segment.text)) <= mtl

CanAbsorbNoLen(cur, segment, mtl, msi) ==
    segment.start - cur.end < msi

\* lines 127-128: the merge condition
CanAbsorb(cur, segment, mtl, msi) ==
    /\ segment.start - cur.end < msi
    /\ Len(cur.text \o <<" ">> \o Strip(segment.text)) < mtl

AbsorbIntoKeepEnd(cur, segment, i) ==
    [text |-> Strip(cur.text \o <<" ">> \o Strip(segment.text)),
     start |-> cur.start, end |-> cur.end, toks |-> Append(cur.toks, i)]

\* lines 129-131: extend the accumulator
AbsorbInto(cur, segment, i) ==
    [text |-> Strip(cur.text \o <<" ">> \o Strip(segment.text)),
     start |-> cur.start, end |-> segment.end, toks |-> Append(cur.toks, i)]

SealedDropLast(merged, cur, isEmpty) == merged

\* lines 142-146: the returned list
Sealed(merged, cur, isEmpty) ==
    IF ~isEmpty THEN Append(merged, [cur EXCEPT !.text = Strip(cur.text)]) ELSE merged

MergerOff ==
    /\ segments = <<>>
    /\ max_text_len = 0
    /\ max_segment_interval = 0
    /\ idx = 0
    /\ merged_segments = <<>>
    /\ current_segment = current_segment_template
    /\ is_current_segment_empty = TRUE
    /\ mpc = "off"
    /\ last_branch = "none"

SerializerOff ==
    /\ result_merged = <<>>
    /\ result_srt_list = <<>>
    /\ sidx = 0
    /\ composed_transcription = <<>>
    /\ raised = "none"
    /\ spc = "off"

TranslatorOff ==
    /\ text = <<>>
    /\ pos = 0
    /\ out = <<>>
    /\ matched = <<>>
    /\ replacement = <<>>
    /\ pass = 0
    /\ input_text = <<>>
    /\ translated_text = <<>>
    /\ translated_twice = <<>>
    /\ tpc = "off"

\* State at the top of the for loop (lines 109-112), for every argument triple
InitMerge ==
    /\ segments \in SeqsUpTo(WellTimedTokens, MaxTokens)
    /\ max_text_len \in TextLens
    /\ max_segment_interval \in Intervals
    /\ idx = 1
    /\ merged_segments = <<>>
    /\ current_segment = current_segment_template
    /\ is_current_segment_empty = TRUE
    /\ mpc = "loop"
    /\ last_branch = "none"
    /\ SerializerOff
    /\ TranslatorOff

\* lines 106-107: if not segments: return []
ReturnEmpty ==
    /\ mpc = "loop"
    /\ segments = <<>>
    /\ mpc' = "done"
    /\ last_branch' = "empty"
    /\ UNCHANGED <<segments, max_text_len, max_segment_interval, idx,
                   merged_segments, current_segment, is_current_segment_empty>>
    /\ UNCHANGED <<svars, tvars>>

\* lines 116-118: a token whose stripped text is empty is skipped
SkipBlank ==
    /\ mpc = "loop"
    /\ idx <= Len(segments)
    /\ Strip(segments[idx].text) = <<>>
    /\ idx' = idx + 1
    /\ last_branch' = "skip"
    /\ UNCHANGED <<segments, max_text_len, max_segment_interval, merged_segments,
                   current_segment, is_current_segment_empty, mpc>>
    /\ UNCHANGED <<svars, tvars>>

\* lines 120-125: no open accumulator
OpenFirst ==
    /\ mpc = "loop"
    /\ idx <= Len(segments)
    /\ Strip(segments[idx].text) # <<>>
    /\ is_current_segment_empty
    /\ current_segment' = Seed(segments[idx], idx)
    /\ is_current_segment_empty' = FALSE
    /\ idx' = idx + 1
    /\ last_branch' = "open"
    /\ UNCHANGED <<segments, max_text_len, max_segment_interval, merged_segments, mpc>>
    /\ UNCHANGED <<svars, tvars>>

\* lines 127-131
Absorb ==
    /\ mpc = "loop"
    /\ idx <= Len(segments)
    /\ Strip(segments[idx].text) # <<>>
    /\ ~is_current_segment_empty
    /\ CanAbsorb(current_segment, segments[idx], max_text_len, max_segment_interval)
    /\ current_segment' = AbsorbInto(current_segment, segments[idx], idx)
    /\ idx' = idx + 1
    /\ last_branch' = "absorb"
    /\ UNCHANGED <<segments, max_text_len, max_segment_interval, merged_segments,
                   is_current_segment_empty, mpc>>
    /\ UNCHANGED <<svars, tvars>>

\* lines 132-139
SealAndOpen ==
    /\ mpc = "loop"
    /\ idx <= Len(segments)
    /\ Strip(segments[idx].text) # <<>>
    /\ ~is_current_segment_empty
    /\ ~CanAbsorb(current_segment, segments[idx], max_text_len, max_segment_interval)
    /\ merged_segments' =
         Append(merged_segments, [current_segment EXCEPT !.text = Strip(current_segment.text)])
    /\ current_segment' = Seed(segments[idx], idx)
    /\ is_current_segment_empty' = FALSE
    /\ idx' = idx + 1
    /\ last_branch' = "seal"
    /\ UNCHANGED <<segments, max_text_len, max_segment_interval, mpc>>
    /\ UNCHANGED <<svars, tvars>>

\* lines 141-146: loop exhausted
FinishMerge ==
    /\ mpc = "loop"
    /\ segments # <<>>
    /\ idx > Len(segments)
    /\ merged_segments' = Sealed(merged_segments, current_segment, is_current_segment_empty)
    /\ mpc' = "done"
    /\ last_branch' = "return"
    /\ UNCHANGED <<segments, max_text_len, max_segment_interval, idx,
                   current_segment, is_current_segment_empty>>
    /\ UNCHANGED <<svars, tvars>>

NextMerge ==
    \/ ReturnEmpty
    \/ SkipBlank
    \/ OpenFirst
    \/ Absorb
    \/ SealAndOpen
    \/ FinishMerge

SpecMerge == InitMerge /\ [][NextMerge]_vars

----------------------------------------------------------------------------
(* SRT generation block of main (lines 239-249) *)

\* Bound of the serializer inputs
MaxCues == 3

CueTexts == { <<>>, <<"a">>, <<"a", " ", "b">> }
CueInputs == { [text |-> t, start |-> s, end |-> e] :
                 t \in CueTexts, s \in TimePoints, e \in TimePoints }

\* lines 244-247: srt.Subtitle(index=i, start=..., end=..., content=v['text'].strip()),
\* i being the 0-based position given by enumerate
MakeSubtitle(i, v) ==
    [index |-> i, start |-> v.start, end |-> v.end, content |-> Strip(v.text)]

\* The srt package is a third-party dependency (installed at line 25); the
\* definitions below follow what its compose() does with the arguments of
\* line 249.  Subtitle ordering used by sorted(): (start, end, index)
SubBefore(a, b) ==
    \/ a.start < b.start
    \/ a.start = b.start /\ a.end < b.end
    \/ a.start = b.start /\ a.end = b.end /\ a.index < b.index

RECURSIVE SortSubs(_)
SortSubs(subs) ==
    IF subs = <<>> THEN <<>>
    ELSE LET m == CHOOSE k \in 1..Len(subs) :
                    \A j \in 1..Len(subs) : j = k \/ SubBefore(subs[k], subs[j])
         IN <<subs[m]>> \o SortSubs(SubSeq(subs, 1, m - 1) \o SubSeq(subs, m + 1, Len(subs)))

\* srt skips a subtitle with no content, a negative start, or start >= end
ShouldSkipSub(sub) ==
    \/ Strip(sub.content) = <<>>
    \/ sub.start < 0
    \/ sub.start >= sub.end

\* sort_and_reindex(subtitles, start_index=1): the kept subtitles are numbered
\* sub_num - skip_num, sub_num counting from start_index over the sorted list
RECURSIVE Reindex(_, _)
Reindex(sorted, next) ==
    IF sorted = <<>> THEN <<>>
    ELSE IF ShouldSkipSub(Head(sorted)) THEN Reindex(Tail(sorted), next)
    ELSE <<[Head(sorted) EXCEPT !.index = next]>> \o Reindex(Tail(sorted), next + 1)

\* line 249: srt.compose(result_srt_list) with its defaults reindex=True,
\* start_index=1; the document is represented by the sequence of its blocks
Compose(subs) == Reindex(SortSubs(subs), 1)

InitSerialize ==
    /\ result_merged \in SeqsUpTo(CueInputs, MaxCues)
    /\ result_srt_list = <<>>
    /\ sidx = 1
    /\ composed_transcription = <<>>
    /\ raised = "none"
    /\ spc = "build"
    /\ MergerOff
    /\ TranslatorOff

\* lines 243-247: one iteration of the enumerate loop
BuildSubtitle ==
    /\ spc = "build"
    /\ sidx <= Len(result_merged)
    /\ result_srt_list' = Append(result_srt_list, MakeSubtitle(sidx - 1, result_merged[sidx]))
    /\ sidx' = sidx + 1
    /\ UNCHANGED <<result_merged, composed_transcription, raised, spc>>
    /\ UNCHANGED <<mvars, tvars>>

\* line 249
ComposeDocument ==
    /\ spc = "build"
    /\ sidx > Len(result_merged)
    /\ composed_transcription' = Compose(result_srt_list)
    /\ spc' = "done"
    /\ UNCHANGED <<result_merged, result_srt_list, sidx, raised>>
    /\ UNCHANGED <<mvars, tvars>>

NextSerialize ==
    \/ BuildSubtitle
    \/ ComposeDocument

SpecSerialize == InitSerialize /\ [][NextSerialize]_vars

----------------------------------------------------------------------------
(* translate_phonetic_alphabet (lines 148-181) *)

\* Bound of the translator inputs: number of chunks concatenated into a text
MaxChunks == 3

ESC == "ESC"          \* the character \033
LONG_S == "U+017F"    \* LATIN SMALL LETTER LONG S
KELVIN == "U+212A"    \* KELVIN SIGN

LowerLetters == <<"a", "b", "c", "d", "e", "f", "g", "h", "i", "j", "k", "l", "m", "n", "o", "p", "q", "r", "s", "t", "u", "v", "w", "x", "y", "z">>
UpperLetters == <<"A", "B", "C", "D", "E", "F", "G", "H", "I", "J", "K", "L", "M", "N", "O", "P", "Q", "R", "S", "T", "U", "V", "W", "X", "Y", "Z">>
Digits == {"0", "1", "2", "3", "4", "5", "6", "7", "8", "9"}

\* lines 151-159, in dict order
phonetic_to_letter ==
    << [word |-> <<"a", "l", "p", "h", "a">>, letter |-> "A"],
       [word |-> <<"b", "r", "a", "v", "o">>, letter |-> "B"],
       [word |-> <<"c", "h", "a", "r", "l", "i", "e">>, letter |-> "C"],
       [word |-> <<"d", "e", "l", "t", "a">>, letter |-> "D"],
       [word |-> <<"e", "c", "h", "o">>, letter |-> "E"],
       [word |-> <<"f", "o", "x", "t", "r", "o", "t">>, letter |-> "F"],
       [word |-> <<"g", "o", "l", "f">>, letter |-> "G"],
       [word |-> <<"h", "o", "t", "e", "l">>, letter |-> "H"],
       [word |-> <<"i", "n", "d", "i", "a">>, letter |-> "I"],
       [word |-> <<"j", "u", "l", "i", "e", "t">>, letter |-> "J"],
       [word |-> <<"k", "i", "l", "o">>, letter |-> "K"],
       [word |-> <<"l", "i", "m", "a">>, letter |-> "L"],
       [word |-> <<"m", "i", "k", "e">>, letter |-> "M"],
       [word |-> <<"n", "o", "v", "e", "m", "b", "e", "r">>, letter |-> "N"],
       [word |-> <<"o", "s", "c", "a", "r">>, letter |-> "O"],
       [word |-> <<"p", "a", "p", "a">>, letter |-> "P"],
       [word |-> <<"q", "u", "e", "b", "e", "c">>, letter |-> "Q"],
       [word |-> <<"r", "o", "m", "e", "o">>, letter |-> "R"],
       [word |-> <<"s", "i", "e", "r", "r", "a">>, letter |-> "S"],
       [word |-> <<"t", "a", "n", "g", "o">>, letter |-> "T"],
       [word |-> <<"u", "n", "i", "f", "o", "r", "m">>, letter |-> "U"],
       [word |-> <<"v", "i", "c", "t", "o", "r">>, letter |-> "V"],
       [word |-> <<"w", "h", "i", "s", "k", "e", "y">>, letter |-> "W"],
       [word |-> <<"x", "r", "a", "y">>, letter |-> "X"],
       [word |-> <<"y", "a", "n", "k", "e", "e">>, letter |-> "Y"],
       [word |-> <<"z", "u", "l", "u">>, letter |-> "Z"] >>

IndexOf(c, letters) == CHOOSE k \in 1..Len(letters) : letters[k] = c
InSeq(c, letters) == \E k \in 1..Len(letters) : letters[k] = c

DOTTED_I == "U+0130"   \* LATIN CAPITAL LETTER I WITH DOT ABOVE
DOTLESS_I == "U+0131"  \* LATIN SMALL LETTER DOTLESS I

\* The characters beyond ASCII that the model represents are U+0080..U+017F,
\* U+0307 and U+212A.  Those that str.lower() changes, and what it gives
\* (U+0130 lowers to two characters):
CasedBeyondAscii ==
    <<
      "U+00C0", "U+00C1", "U+00C2", "U+00C3", "U+00C4", "U+00C5", "U+00C6",
      "U+00C7", "U+00C8", "U+00C9", "U+00CA", "U+00CB", "U+00CC", "U+00CD",
      "U+00CE", "U+00CF", "U+00D0", "U+00D1", "U+00D2", "U+00D3", "U+00D4",
      "U+00D5", "U+00D6", "U+00D8", "U+00D9", "U+00DA", "U+00DB", "U+00DC",
      "U+00DD", "U+00DE", "U+0100", "U+0102", "U+0104", "U+0106", "U+0108",
      "U+010A", "U+010C", "U+010E", "U+0110", "U+0112", "U+0114", "U+0116",
      "U+0118", "U+011A", "U+011C", "U+011E", "U+0120", "U+0122", "U+0124",
      "U+0126", "U+0128", "U+012A", "U+012C", "U+012E", "U+0130", "U+0132",
      "U+0134", "U+0136", "U+0139", "U+013B", "U+013D", "U+013F", "U+0141",
      "U+0143", "U+0145", "U+0147", "U+014A", "U+014C", "U+014E", "U+0150",
      "U+0152", "U+0154", "U+0156", "U+0158", "U+015A", "U+015C", "U+015E",
      "U+0160", "U+0162", "U+0164", "U+0166", "U+0168", "U+016A", "U+016C",
      "U+016E", "U+0170", "U+0172", "U+0174", "U+0176", "U+0178", "U+0179",
      "U+017B", "U+017D", "U+212A"
    >>
LoweredBeyondAscii ==
    <<
      <<"U+00E0">>, <<"U+00E1">>, <<"U+00E2">>, <<"U+00E3">>, <<"U+00E4">>,
      <<"U+00E5">>, <<"U+00E6">>, <<"U+00E7">>, <<"U+00E8">>, <<"U+00E9">>,
      <<"U+00EA">>, <<"U+00EB">>, <<"U+00EC">>, <<"U+00ED">>, <<"U+00EE">>,
      <<"U+00EF">>, <<"U+00F0">>, <<"U+00F1">>, <<"U+00F2">>, <<"U+00F3">>,
      <<"U+00F4">>, <<"U+00F5">>, <<"U+00F6">>, <<"U+00F8">>, <<"U+00F9">>,
      <<"U+00FA">>, <<"U+00FB">>, <<"U+00FC">>, <<"U+00FD">>, <<"U+00FE">>,
      <<"U+0101">>, <<"U+0103">>, <<"U+0105">>, <<"U+0107">>, <<"U+0109">>,
      <<"U+010B">>, <<"U+010D">>, <<"U+010F">>, <<"U+0111">>, <<"U+0113">>,
      <<"U+0115">>, <<"U+0117">>, <<"U+0119">>, <<"U+011B">>, <<"U+011D">>,
      <<"U+011F">>, <<"U+0121">>, <<"U+0123">>, <<"U+0125">>, <<"U+0127">>,
      <<"U+0129">>, <<"U+012B">>, <<"U+012D">>, <<"U+012F">>, <<"i",
      "U+0307">>, <<"U+0133">>, <<"U+0135">>, <<"U+0137">>, <<"U+013A">>,
      <<"U+013C">>, <<"U+013E">>, <<"U+0140">>, <<"U+0142">>, <<"U+0144">>,
      <<"U+0146">>, <<"U+0148">>, <<"U+014B">>, <<"U+014D">>, <<"U+014F">>,
      <<"U+0151">>, <<"U+0153">>, <<"U+0155">>, <<"U+0157">>, <<"U+0159">>,
      <<"U+015B">>, <<"U+015D">>, <<"U+015F">>, <<"U+0161">>, <<"U+0163">>,
      <<"U+0165">>, <<"U+0167">>, <<"U+0169">>, <<"U+016B">>, <<"U+016D">>,
      <<"U+016F">>, <<"U+0171">>, <<"U+0173">>, <<"U+0175">>, <<"U+0177">>,
      <<"U+00FF">>, <<"U+017A">>, <<"U+017C">>, <<"U+017E">>, <<"k">>
    >>

\* those that \w of a str pattern matches
WordCharsBeyondAscii ==
    {
      "U+00AA", "U+00B2", "U+00B3", "U+00B5", "U+00B9", "U+00BA", "U+00BC",
      "U+00BD", "U+00BE", "U+00C0", "U+00C1", "U+00C2", "U+00C3", "U+00C4",
      "U+00C5", "U+00C6", "U+00C7", "U+00C8", "U+00C9", "U+00CA", "U+00CB",
      "U+00CC", "U+00CD", "U+00CE", "U+00CF", "U+00D0", "U+00D1", "U+00D2",
      "U+00D3", "U+00D4", "U+00D5", "U+00D6", "U+00D8", "U+00D9", "U+00DA",
      "U+00DB", "U+00DC", "U+00DD", "U+00DE", "U+00DF", "U+00E0", "U+00E1",
      "U+00E2", "U+00E3", "U+00E4", "U+00E5", "U+00E6", "U+00E7", "U+00E8",
      "U+00E9", "U+00EA", "U+00EB", "U+00EC", "U+00ED", "U+00EE", "U+00EF",
      "U+00F0", "U+00F1", "U+00F2", "U+00F3", "U+00F4", "U+00F5", "U+00F6",
      "U+00F8", "U+00F9", "U+00FA", "U+00FB", "U+00FC", "U+00FD", "U+00FE",
      "U+00FF", "U+0100", "U+0101", "U+0102", "U+0103", "U+0104", "U+0105",
      "U+0106", "U+0107", "U+0108", "U+0109", "U+010A", "U+010B", "U+010C",
      "U+010D", "U+010E", "U+010F", "U+0110", "U+0111", "U+0112", "U+0113",
      "U+0114", "U+0115", "U+0116", "U+0117", "U+0118", "U+0119", "U+011A",
      "U+011B", "U+011C", "U+011D", "U+011E", "U+011F", "U+0120", "U+0121",
      "U+0122", "U+0123", "U+0124", "U+0125", "U+0126", "U+0127", "U+0128",
      "U+0129", "U+012A", "U+012B", "U+012C", "U+012D", "U+012E", "U+012F",
      "U+0130", "U+0131", "U+0132", "U+0133", "U+0134", "U+0135", "U+0136",
      "U+0137", "U+0138", "U+0139", "U+013A", "U+013B", "U+013C", "U+013D",
      "U+013E", "U+013F", "U+0140", "U+0141", "U+0142", "U+0143", "U+0144",
      "U+0145", "U+0146", "U+0147", "U+0148", "U+0149", "U+014A", "U+014B",
      "U+014C", "U+014D", "U+014E", "U+014F", "U+0150", "U+0151", "U+0152",
      "U+0153", "U+0154", "U+0155", "U+0156", "U+0157", "U+0158", "U+0159",
      "U+015A", "U+015B", "U+015C", "U+015D", "U+015E", "U+015F", "U+0160",
      "U+0161", "U+0162", "U+0163", "U+0164", "U+0165", "U+0166", "U+0167",
      "U+0168", "U+0169", "U+016A", "U+016B", "U+016C", "U+016D", "U+016E",
      "U+016F", "U+0170", "U+0171", "U+0172", "U+0173", "U+0174", "U+0175",
      "U+0176", "U+0177", "U+0178", "U+0179", "U+017A", "U+017B", "U+017C",
      "U+017D", "U+017E", "U+017F", "U+212A"
    }

\* str.lower() on one character: a text of one character, two for U+0130
LowerChar(c) ==
    IF InSeq(c, UpperLetters) THEN <<LowerLetters[IndexOf(c, UpperLetters)]>>
    ELSE IF InSeq(c, CasedBeyondAscii) THEN LoweredBeyondAscii[IndexOf(c, CasedBeyondAscii)]
    ELSE <<c>>

\* line 166: match.group(0).lower()
LowerText(w) == Flatten([k \in 1..Len(w) |-> LowerChar(w[k])])

\* \w of a str pattern
IsWordChar(c) ==
    \/ InSeq(c, LowerLetters)
    \/ InSeq(c, UpperLetters)
    \/ c \in Digits
    \/ c = "_"
    \/ c \in WordCharsBeyondAscii

IsWordAt(t, p) == p >= 1 /\ p <= Len(t) /\ IsWordChar(t[p])

WordBoundaryNone(t, p) == TRUE

\* \b between t[p-1] and t[p]
WordBoundary(t, p) == IsWordAt(t, p - 1) # IsWordAt(t, p)

\* a lowercase pattern letter p under re.IGNORECASE matches the letter, its
\* upper case, and the other characters of its case-equivalence class:
\* U+017F for s, U+212A for k, U+0130 and U+0131 for i
IgnoreCaseEq(c, p) ==
    \/ c = p
    \/ InSeq(c, UpperLetters) /\ LowerLetters[IndexOf(c, UpperLetters)] = p
    \/ p = "s" /\ c = LONG_S
    \/ p = "k" /\ c = KELVIN
    \/ p = "i" /\ c \in {DOTTED_I, DOTLESS_I}

WordAt(t, p, w) ==
    /\ p + Len(w) - 1 <= Len(t)
    /\ \A k \in 1..Len(w) : IgnoreCaseEq(t[p + k - 1], w[k])

MatchAtNoTrailingBoundary(t, p) ==
    IF ~WordBoundary(t, p) THEN 0
    ELSE LET ok == { i \in 1..Len(phonetic_to_letter) :
                       WordAt(t, p, phonetic_to_letter[i].word) }
         IN IF ok = {} THEN 0 ELSE CHOOSE i \in ok : \A j \in ok : i <= j

\* lines 162 and 178: the first alternative of \b(?:alpha|...|zulu)\b that
\* matches at p (its position in the dict), 0 if the pattern does not match at p
MatchAt(t, p) ==
    IF ~WordBoundary(t, p) THEN 0
    ELSE LET ok == { i \in 1..Len(phonetic_to_letter) :
                       /\ WordAt(t, p, phonetic_to_letter[i].word)
                       /\ WordBoundary(t, p + Len(phonetic_to_letter[i].word)) }
         IN IF ok = {} THEN 0 ELSE CHOOSE i \in ok : \A j \in ok : i <= j

IsKey(w) == \E i \in 1..Len(phonetic_to_letter) : phonetic_to_letter[i].word = w

LetterOf(w) ==
    phonetic_to_letter[CHOOSE i \in 1..Len(phonetic_to_letter) :
                           phonetic_to_letter[i].word = w].letter

november == <<"n", "o", "v", "e", "m", "b", "e", "r">>

Bold(letter) == <<ESC, "[", "1", "m", letter, ESC, "[", "0", "m">>

\* lines 167-175, for a matched_word that is a key of the dict
ReplaceMatchAndBold(matched_word) ==
    IF matched_word = november /\ LetterOf(matched_word) = "N"
    THEN Bold(LetterOf(matched_word))
    ELSE <<LetterOf(matched_word)>>

Chunks ==
    { <<"N", "o", "V", "e", "m", "b", "e", "r">>,
      <<"a", "l", "p", "h", "a">>,
      <<"a", "l", "p", "h", "a", "b", "e", "t", "i", "c", "a", "l">>,
      <<"o", "s", "c", "a", "r">>,
      <<"g">>,
      <<"l", "f">>,
      <<" ">>,
      <<"_">>,
      <<"U+00E9">>,
      <<DOTTED_I, "n", "d", "i", "a">>,
      <<LONG_S, "i", "e", "r", "r", "a">>,
      <<KELVIN, "I", "L", "O">> }

InitTranslate ==
    /\ \E cs \in SeqsUpTo(Chunks, MaxChunks) : input_text = Flatten(cs)
    /\ text = input_text
    /\ pos = 1
    /\ out = <<>>
    /\ matched = <<>>
    /\ replacement = <<>>
    /\ pass = 1
    /\ translated_text = <<>>
    /\ translated_twice = <<>>
    /\ tpc = "scan"
    /\ MergerOff
    /\ SerializerOff

\* re.sub: no match starts at pos, the character is copied
CopyChar ==
    /\ tpc = "scan"
    /\ pos <= Len(text)
    /\ MatchAt(text, pos) = 0
    /\ out' = Append(out, text[pos])
    /\ pos' = pos + 1
    /\ UNCHANGED <<text, matched, replacement, pass, input_text,
                   translated_text, translated_twice, tpc>>
    /\ UNCHANGED <<mvars, svars>>

\* re.sub: a match starts at pos and replace_match_and_bold returns
ReplaceMatch ==
    /\ tpc = "scan"
    /\ pos <= Len(text)
    /\ MatchAt(text, pos) # 0
    /\ LET n == Len(phonetic_to_letter[MatchAt(text, pos)].word)
           group0 == SubSeq(text, pos, pos + n - 1)
       IN /\ IsKey(LowerText(group0))
          /\ matched' = group0
          /\ replacement' = ReplaceMatchAndBold(LowerText(group0))
          /\ out' = out \o ReplaceMatchAndBold(LowerText(group0))
          /\ pos' = pos + n
    /\ UNCHANGED <<text, pass, input_text, translated_text, translated_twice, tpc>>
    /\ UNCHANGED <<mvars, svars>>

\* line 167: phonetic_to_letter[matched_word] raises KeyError when the
\* lowercased match is not a key
RaiseKeyError ==
    /\ tpc = "scan"
    /\ pos <= Len(text)
    /\ MatchAt(text, pos) # 0
    /\ LET n == Len(phonetic_to_letter[MatchAt(text, pos)].word)
           group0 == SubSeq(text, pos, pos + n - 1)
       IN /\ ~IsKey(LowerText(group0))
          /\ matched' = group0
    /\ replacement' = <<>>
    /\ tpc' = "raised"
    /\ UNCHANGED <<text, pos, out, pass, input_text, translated_text, translated_twice>>
    /\ UNCHANGED <<mvars, svars>>

\* line 181 of the first call, whose result is the argument of a second call
ReturnFirst ==
    /\ tpc = "scan"
    /\ pass = 1
    /\ pos > Len(text)
    /\ translated_text' = out
    /\ text' = out
    /\ pos' = 1
    /\ out' = <<>>
    /\ matched' = <<>>
    /\ replacement' = <<>>
    /\ pass' = 2
    /\ UNCHANGED <<input_text, translated_twice, tpc>>
    /\ UNCHANGED <<mvars, svars>>

\* line 181 of the second call
ReturnSecond ==
    /\ tpc = "scan"
    /\ pass = 2
    /\ pos > Len(text)
    /\ translated_twice' = out
    /\ tpc' = "done"
    /\ UNCHANGED <<text, pos, out, matched, replacement, pass, input_text, translated_text>>
    /\ UNCHANGED <<mvars, svars>>

NextTranslate ==
    \/ CopyChar
    \/ ReplaceMatch
    \/ RaiseKeyError
    \/ ReturnFirst
    \/ ReturnSecond

SpecTranslate == InitTranslate /\ [][NextTranslate]_vars

----------------------------------------------------------------------------
(* Properties of sentence_segments_merger *)

NonBlankInput == \A i \in 1..Len(segments) : Strip(segments[i].text) # <<>>

\* Every cue built so far: the sealed ones and, while open, the accumulator
CuesSoFar ==
    {merged_segments[j] : j \in 1..Len(merged_segments)}
        \cup (IF is_current_segment_empty \/ mpc = "done" THEN {} ELSE {current_segment})

RECURSIVE JoinStripped(_)
JoinStripped(ts) ==
    IF Len(ts) = 1 THEN Strip(segments[ts[1]].text)
    ELSE JoinStripped(SubSeq(ts, 1, Len(ts) - 1)) \o <<" ">> \o Strip(segments[Last(ts)].text)

\* C1: when every input text is non-empty after trimming, the constituent
\* tokens of the returned cues, concatenated in output order, are exactly the
\* input positions 1..n in order: nothing dropped, duplicated or reordered.
C1_Partition ==
    (mpc = "done" /\ NonBlankInput) =>
        /\ Flatten([j \in 1..Len(merged_segments) |-> merged_segments[j].toks])
             = [i \in 1..Len(segments) |-> i]
        /\ \A j \in 1..Len(merged_segments) : merged_segments[j].toks # <<>>

C1_Witness ==
    /\ mpc = "done"
    /\ NonBlankInput
    /\ Len(segments) = 3
    /\ Len(merged_segments) = 2

\* C2: two tokens that follow one another inside the same cue are closer than
\* max_segment_interval: t2.start - t1.end < max_segment_interval.
C2_Gap ==
    \A c \in CuesSoFar : \A k \in 1..(Len(c.toks) - 1) :
        segments[c.toks[k + 1]].start - segments[c.toks[k]].end < max_segment_interval

C2_Witness ==
    /\ mpc = "done"
    /\ \E j \in 1..Len(merged_segments) :
         /\ Len(merged_segments[j].toks) >= 2
         /\ segments[merged_segments[j].toks[2]].start
              - segments[merged_segments[j].toks[1]].end = max_segment_interval - 1

\* C3: a returned cue is shorter than max_text_len or is made of one token.
C3_Length ==
    \A j \in 1..Len(merged_segments) :
        \/ Len(merged_segments[j].text) < max_text_len
        \/ Len(merged_segments[j].toks) = 1

C3_Witness ==
    /\ mpc = "done"
    /\ \E j \in 1..Len(merged_segments) :
         /\ Len(merged_segments[j].toks) = 1
         /\ Len(merged_segments[j].text) >= max_text_len
    /\ \E j \in 1..Len(merged_segments) : Len(merged_segments[j].toks) >= 2

\* A loop iteration on a non-blank token while a cue is open
OpenCueStep ==
    /\ mpc = "loop"
    /\ idx <= Len(segments)
    /\ ~is_current_segment_empty
    /\ Strip(segments[idx].text) # <<>>
    /\ idx' = idx + 1

AbsorbedStep ==
    /\ merged_segments' = merged_segments
    /\ current_segment'.toks = Append(current_segment.toks, idx)
    /\ current_segment'.start = current_segment.start
    /\ current_segment'.end = segments[idx].end

SealedStep ==
    /\ merged_segments' = Append(merged_segments, current_segment)
    /\ current_segment'.toks = <<idx>>
    /\ current_segment'.start = segments[idx].start
    /\ current_segment'.end = segments[idx].end
    /\ current_segment'.text = Strip(segments[idx].text)

\* C4 as stated: with a cue open, the next token is absorbed iff
\* token.start - current.end < max_gap and
\* len(current.text + " " + token.text) < max_text_len, the length being that
\* of the token text as given; otherwise the cue is sealed and a new one opened.
C4_AsStated ==
    [][OpenCueStep =>
         IF /\ segments[idx].start - current_segment.end < max_segment_interval
            /\ Len(current_segment.text \o <<" ">> \o segments[idx].text) < max_text_len
         THEN AbsorbedStep
         ELSE SealedStep]_vars

\* C4 amended: the candidate length is measured on the trimmed token text:
\* absorbed iff token.start - current.end < max_gap and
\* len(current.text + " " + token.text.strip()) < max_text_len; in every other
\* case (gap equal to max_gap, length equal to max_text_len included) the cue
\* is sealed and a new cue is seeded from the token.
C4_AbsorbIff ==
    [][OpenCueStep =>
         IF /\ segments[idx].start - current_segment.end < max_segment_interval
            /\ Len(current_segment.text) + 1 + Len(Strip(segments[idx].text)) < max_text_len
         THEN AbsorbedStep
         ELSE SealedStep]_vars

\* a cue was just sealed because the candidate length was exactly max_text_len
C4_Witness ==
    /\ last_branch = "seal"
    /\ LET prev == Last(merged_segments)
           tok  == segments[idx - 1]
       IN /\ tok.start - prev.end < max_segment_interval
          /\ Len(prev.text) + 1 + Len(Strip(tok.text)) = max_text_len
          /\ current_segment.toks = <<idx - 1>>

\* C5: a returned cue starts where its first token starts, ends where its last
\* token ends, and its text is the trimmed token texts joined by single spaces.
C5_CueFields ==
    \A j \in 1..Len(merged_segments) :
        LET c == merged_segments[j]
        IN /\ c.toks # <<>>
           /\ c.start = segments[Head(c.toks)].start
           /\ c.end = segments[Last(c.toks)].end
           /\ c.text = JoinStripped(c.toks)

C5_Witness ==
    /\ mpc = "done"
    /\ \E j \in 1..Len(merged_segments) :
         LET c == merged_segments[j]
         IN /\ Len(c.toks) >= 2
            /\ segments[c.toks[2]].text # Strip(segments[c.toks[2]].text)
            /\ segments[c.toks[2]].end # segments[c.toks[1]].end

----------------------------------------------------------------------------
(* Properties of the SRT generation block *)

\* a cue as the data model wants it: start <= end and a non-empty text
WellFormedCue(c) == c.start <= c.end /\ Strip(c.text) # <<>>

\* C6: the document of a cue sequence of length n has exactly n blocks, in cue
\* order, and the block of the cue at 0-based position i carries index i.
C6_AsStated ==
    (spc = "done" /\ \A i \in 1..Len(result_merged) : WellFormedCue(result_merged[i])) =>
        /\ Len(composed_transcription) = Len(result_merged)
        /\ \A i \in 1..Len(composed_transcription) :
             /\ composed_transcription[i].index = i - 1
             /\ composed_transcription[i].start = result_merged[i].start
             /\ composed_transcription[i].end = result_merged[i].end
             /\ composed_transcription[i].content = Strip(result_merged[i].text)

\* C7: serialization given a cue with end < start or an empty text fails with
\* InvalidCue; such a cue is neither silently emitted nor silently dropped.
C7_AsStated ==
    (/\ spc = "done"
     /\ \E i \in 1..Len(result_merged) :
          result_merged[i].end < result_merged[i].start \/ result_merged[i].text = <<>>)
        => raised = "InvalidCue"

----------------------------------------------------------------------------
(* Properties of translate_phonetic_alphabet *)

\* the lowercase letter a character is a case variant of, and the same for a text
CaseFoldChar(c) ==
    IF c = LONG_S THEN "s"
    ELSE IF c \in {DOTTED_I, DOTLESS_I} THEN "i"
    ELSE Head(LowerChar(c))
CaseFold(w) == [k \in 1..Len(w) |-> CaseFoldChar(w[k])]

RECURSIVE RunEnd(_, _)
\* last position of the run of word characters that contains position p
RunEnd(t, p) == IF IsWordAt(t, p + 1) THEN RunEnd(t, p + 1) ELSE p

\* position p starts a whole word of t that case-insensitively equals a key
WholeWordKeyAt(t, p) ==
    /\ IsWordAt(t, p)
    /\ ~IsWordAt(t, p - 1)
    /\ IsKey(CaseFold(SubSeq(t, p, RunEnd(t, p))))

Contains(t, c) == \E k \in 1..Len(t) : t[k] = c

\* C8: translating the result of a translation changes nothing:
\* translate(translate(text)) = translate(text), emphasised N included; a call
\* on a returned result does not raise.
C8_Idempotent ==
    /\ tpc = "done" => translated_twice = translated_text
    /\ pass = 2 => tpc # "raised"

C8_Witness ==
    /\ tpc = "done"
    /\ Contains(translated_text, ESC)
    /\ Len(translated_text) > 9
    /\ translated_twice = translated_text

\* C9: a scan step replaces a span only when the span is a whole word (word
\* boundaries on both sides) that case-insensitively equals a key; at every
\* other position, inside a larger word included, the character is copied
\* unchanged and in order.
C9_WholeWordOnly ==
    [][(tpc = "scan" /\ pos <= Len(text)) =>
         IF WholeWordKeyAt(text, pos)
         THEN \/ tpc' = "raised" /\ out' = out
              \/ /\ pos' = RunEnd(text, pos) + 1
                 /\ matched' = SubSeq(text, pos, RunEnd(text, pos))
                 /\ out' = out \o replacement'
         ELSE /\ pos' = pos + 1
              /\ out' = Append(out, text[pos])]_vars

C9_Witness ==
    /\ pass = 2
    /\ input_text = <<"a", "l", "p", "h", "a", "b", "e", "t", "i", "c", "a", "l",
                      " ", "a", "l", "p", "h", "a">>
    /\ translated_text = <<"a", "l", "p", "h", "a", "b", "e", "t", "i", "c", "a", "l",
                           " ", "A">>

\* C10: a matched word is replaced by the emphasised letter iff its lowercase
\* is "november"; every other matched phonetic word, in any letter case, is
\* replaced by the bare uppercase letter of the key it spells.
C10_AsStated ==
    matched # <<>> =>
        replacement = IF LowerText(matched) = november
                      THEN Bold("N")
                      ELSE <<LetterOf(CaseFold(matched))>>

====
